---------------------------- MODULE Spec2Model ----------------------------
(***************************************************************************)
(* Model of calculateMix (src/src/services/solver.ts): the zero-target     *)
(* pre-filter, the validation, the construction of the MILP handed to      *)
(* glpk.js, the solver call and the interpretation of its answer.          *)
(*                                                                         *)
(* Numbers.  Weights (totalWeight, increment, the amounts x_i, M, epsilon) *)
(* are counted in units of 0.0005 g, so that epsilon = 0.001 g is 2 units  *)
(* and an amount below epsilon exists on the grid.  Percentages (targets,  *)
(* tolerance, nutrient contents) are integers.  A constraint row keeps     *)
(* integer coefficients and bounds together with the denominator `den`     *)
(* they are all divided by: the row means  lb/den <= SUM coef/den * var    *)
(* <= ub/den, which is exact for the divisions by 100 of the source.       *)
(***************************************************************************)
EXTENDS Integers, Sequences, FiniteSets, TLC

\* ------------------------------------------------------------------ bounds
MaxFert == 2        \* longest candidate list of a request
MaxWeight == 6      \* largest totalWeight of a request (units of 0.0005 g)
MaxIncrement == 3   \* largest increment of a request (units of 0.0005 g)
MaxOverlap == 2     \* invocations of calculateMix that overlap
MaxClicks == 2      \* clicks on the Calculate Mix button
MaxBlends == 1      \* blends saved from the Mixer
MaxEdits == 1       \* edits of the Mixer's form

\* ------------------------------------------------------- program constants
\* const epsilon = 0.001, in units of 0.0005 g
epsilon == 2

InvalidParametersMsg == "Total weight and increment must be positive."
NoCandidatesMsg == "No fertilizers selected for mixing."
InfeasibleMsg == "No feasible solution could be found for the given parameters. Try adjusting NPK targets, tolerance, or available fertilizers."
UnboundedMsg == "The problem is unbounded (variables can increase indefinitely without violating constraints)."
UndefinedMsg == "The problem is undefined (e.g., due to contradictory constraints or numerical instability)."
StatusMsgPrefix == "Solver finished with status: "
FaultMsgPrefix == "An unexpected error occurred during calculation: "

\* ------------------------------------------------------------------ inputs
\* The Fertilizer records a request may list (types/index.ts).  The form
\* stores Number(value) of a numeric field, so a negative content can be
\* entered.
Library ==
  { [id |-> "A", n |-> 100, p |-> 0,  k |-> 0],
    [id |-> "B", n |-> 0,   p |-> 0,  k |-> 0],
    [id |-> "C", n |-> 0,   p |-> 50, k |-> 50],
    [id |-> "D", n |-> -10, p |-> 0,  k |-> 0],
    [id |-> "E", n |-> 50,  p |-> 0,  k |-> 0] }

RECURSIVE ListsOfLen(_)
ListsOfLen(len) ==
  IF len = 0 THEN { <<>> }
  ELSE { Append(s, f) : s \in ListsOfLen(len - 1), f \in Library }

\* the Autocomplete of the Mixer selects each fertilizer at most once
Distinct(s) == \A i, j \in 1..Len(s) : i # j => s[i].id # s[j].id

FertilizerLists ==
  { s \in UNION { ListsOfLen(len) : len \in 0..MaxFert } : Distinct(s) }

Targets == {0, 50}
Tolerances == {0, 50}
TotalWeights == (-1)..MaxWeight
Increments == 0..MaxIncrement

CalculateMixParams ==
  [ targetN : Targets, targetP : Targets, targetK : Targets,
    totalWeight : TotalWeights, tolerance : Tolerances,
    increment : Increments, availableFertilizers : FertilizerLists ]

ErrorMessages == {"module load failed", "out of memory"}

VARIABLES
  params,                \* the request calculateMix was called with
  pc,                    \* where the invocation is
  availableFertilizers,  \* the filtered list (const availableFertilizers)
  lp,                    \* the model handed to glpk.solve
  solverResult,          \* what glpk.solve resolved with
  result,                \* the CalculationResult the promise resolved with
  thrown,                \* the error the promise rejected with
  caught,                \* the message of the error bound by the catch clause
  stages,                \* history: the stages the invocation went through
  solveCalls             \* history: how many times glpk.solve was called

coreVars == <<params, pc, availableFertilizers, lp, solverResult, result,
              thrown, caught, stages, solveCalls>>

VARIABLES
  invocations            \* overlapping invocations: the locals of each one

overlapVars == <<invocations>>

VARIABLES
  form,                        \* Mixer state: targetN, targetP, targetK, totalWeight,
                               \* increment (texts), tolerance, selectedFertilizers
  calculationResult,           \* Mixer state: the displayed result, or Null
  pastBlends,                  \* Mixer state: the saved blends
  inFlight,                    \* calculateMix calls of the Mixer not yet settled
  triggers,                    \* history: calls of handleCalculateMix so far
  clicks, edits,               \* history: clicks on Calculate Mix, edits of the form
  lastTriggered,               \* history: outcome of the call triggered last
  shownFor,                    \* history: targets of the call whose result is shown
  savedFor                     \* history: per saved blend, the targets of its call

formVars == <<form>>

mixerVars == <<formVars, calculationResult, pastBlends, inFlight, triggers, clicks,
               edits, lastTriggered, shownFor, savedFor>>

vars == <<coreVars, overlapVars, mixerVars>>

\* ------------------------------------------------------ zero-target filter
FilterKeeps(p, fertilizer) ==
  IF p.targetN = 0 /\ fertilizer.n > 0 THEN FALSE
  ELSE IF p.targetP = 0 /\ fertilizer.p > 0 THEN FALSE
  ELSE IF p.targetK = 0 /\ fertilizer.k > 0 THEN FALSE
  ELSE TRUE

RECURSIVE FilterList(_, _)
\* Array.prototype.filter: a new array, the kept elements in their order
FilterList(p, s) ==
  IF s = <<>> THEN <<>>
  ELSE IF FilterKeeps(p, Head(s)) THEN <<Head(s)>> \o FilterList(p, Tail(s))
       ELSE FilterList(p, Tail(s))

\* mutant of ZeroTargetFilter: nothing is filtered out
ZeroTargetFilter_KeepsAll(p) == p.availableFertilizers

ZeroTargetFilter(p) == FilterList(p, p.availableFertilizers)

\* ----------------------------------------------------------- model builder
\* `x${index}`, `z${index}`, `y${index}`
XVar(index) == "x" \o ToString(index)
ZVar(index) == "z" \o ToString(index)
YVar(index) == "y" \o ToString(index)

\* const M = totalWeight * 2
BigM(totalWeight) == totalWeight * 2

\* the three lp.bounds entries pushed for the fertilizer at `index`
FertilizerBounds(index, totalWeight, increment) ==
  << [name |-> XVar(index), type |-> "GLP_DB", lb |-> 0, ub |-> totalWeight],
     [name |-> ZVar(index), type |-> "GLP_DB", lb |-> 0, ub |-> totalWeight \div increment],
     [name |-> YVar(index), type |-> "GLP_DB", lb |-> 0, ub |-> 1] >>

\* mutant of IncrementRow: the row is a lower bound instead of an equality
IncrementRow_LowerBound(index, increment) ==
  [ name |-> "c_increment_" \o ToString(index),
    vars |-> << [name |-> XVar(index), coef |-> 1],
                [name |-> ZVar(index), coef |-> -increment] >>,
    bnds |-> [type |-> "GLP_LO", lb |-> 0],
    den  |-> 1 ]

\* C1: x_f - increment * z_f = 0
IncrementRow(index, increment) ==
  [ name |-> "c_increment_" \o ToString(index),
    vars |-> << [name |-> XVar(index), coef |-> 1],
                [name |-> ZVar(index), coef |-> -increment] >>,
    bnds |-> [type |-> "GLP_FX", lb |-> 0, ub |-> 0],
    den  |-> 1 ]

\* C2: x_f - M * y_f <= 0
BigMUpperRow(index, totalWeight) ==
  [ name |-> "c_bigM_upper_" \o ToString(index),
    vars |-> << [name |-> XVar(index), coef |-> 1],
                [name |-> YVar(index), coef |-> -BigM(totalWeight)] >>,
    bnds |-> [type |-> "GLP_UP", ub |-> 0],
    den  |-> 1 ]

\* mutant of BigMLowerRow: the sign of the epsilon coefficient is wrong
BigMLowerRow_WrongSign(index) ==
  [ name |-> "c_bigM_lower_" \o ToString(index),
    vars |-> << [name |-> XVar(index), coef |-> 1],
                [name |-> YVar(index), coef |-> epsilon] >>,
    bnds |-> [type |-> "GLP_LO", lb |-> 0],
    den  |-> 1 ]

\* C3: x_f - epsilon * y_f >= 0
BigMLowerRow(index) ==
  [ name |-> "c_bigM_lower_" \o ToString(index),
    vars |-> << [name |-> XVar(index), coef |-> 1],
                [name |-> YVar(index), coef |-> -epsilon] >>,
    bnds |-> [type |-> "GLP_LO", lb |-> 0],
    den  |-> 1 ]

\* the three lp.subjectTo entries pushed for the fertilizer at `index`
FertilizerRows(index, totalWeight, increment) ==
  << IncrementRow(index, increment),
     BigMUpperRow(index, totalWeight),
     BigMLowerRow(index) >>

RECURSIVE ForEachBounds(_, _, _)
ForEachBounds(count, totalWeight, increment) ==
  IF count = 0 THEN <<>>
  ELSE ForEachBounds(count - 1, totalWeight, increment)
         \o FertilizerBounds(count - 1, totalWeight, increment)

RECURSIVE ForEachRows(_, _, _)
ForEachRows(count, totalWeight, increment) ==
  IF count = 0 THEN <<>>
  ELSE ForEachRows(count - 1, totalWeight, increment)
         \o FertilizerRows(count - 1, totalWeight, increment)

\* mutant of TotalWeightRow: the total is an upper bound, not an equality
TotalWeightRow_UpperBound(avail, totalWeight) ==
  [ name |-> "c_total_weight",
    vars |-> [i \in 1..Len(avail) |-> [name |-> XVar(i - 1), coef |-> 1]],
    bnds |-> [type |-> "GLP_UP", ub |-> totalWeight],
    den  |-> 1 ]

\* C4: sum(x_f) = totalWeight
TotalWeightRow(avail, totalWeight) ==
  [ name |-> "c_total_weight",
    vars |-> [i \in 1..Len(avail) |-> [name |-> XVar(i - 1), coef |-> 1]],
    bnds |-> [type |-> "GLP_FX", lb |-> totalWeight, ub |-> totalWeight],
    den  |-> 1 ]

\* mutant of IsConstraintNecessary: the row is emitted unconditionally
IsConstraintNecessary_Always(target, avail, nut) == TRUE

\* is{Nitrogen,Phosphorus,Potassium}ConstraintNecessary; nut is "n", "p", "k"
IsConstraintNecessary(target, avail, nut) ==
  ~ (target = 0 /\ \A i \in 1..Len(avail) : avail[i][nut] = 0)

\* c_N_tolerance, c_P_tolerance, c_K_tolerance.  With
\* targetAmount = totalWeight * (target / 100) and
\* toleranceMultiplier = tolerance / 100 the row is, times 10000:
\*   coef = pct / 100,  lb = targetAmount * (1 - toleranceMultiplier),
\*   ub = targetAmount * (1 + toleranceMultiplier)
ToleranceRow(rowName, target, avail, nut, totalWeight, tolerance) ==
  [ name |-> rowName,
    vars |-> [i \in 1..Len(avail) |-> [name |-> XVar(i - 1), coef |-> avail[i][nut] * 100]],
    bnds |-> [type |-> "GLP_DB",
              lb |-> totalWeight * target * (100 - tolerance),
              ub |-> totalWeight * target * (100 + tolerance)],
    den  |-> 10000 ]

ToleranceRows(rowName, target, avail, nut, totalWeight, tolerance) ==
  IF IsConstraintNecessary(target, avail, nut)
    THEN << ToleranceRow(rowName, target, avail, nut, totalWeight, tolerance) >>
    ELSE <<>>

\* the lp object as it is when glpk.solve is called (lines 55-163)
BuildModel(p, avail) ==
  [ name |-> "Fertilizer-Mix",
    objective |-> [ direction |-> "GLP_MIN", name |-> "count",
                    vars |-> [i \in 1..Len(avail) |-> [name |-> YVar(i - 1), coef |-> 1]] ],
    subjectTo |-> ForEachRows(Len(avail), p.totalWeight, p.increment)
                  \o << TotalWeightRow(avail, p.totalWeight) >>
                  \o ToleranceRows("c_N_tolerance", p.targetN, avail, "n", p.totalWeight, p.tolerance)
                  \o ToleranceRows("c_P_tolerance", p.targetP, avail, "p", p.totalWeight, p.tolerance)
                  \o ToleranceRows("c_K_tolerance", p.targetK, avail, "k", p.totalWeight, p.tolerance),
    bounds |-> ForEachBounds(Len(avail), p.totalWeight, p.increment),
    binaries |-> [i \in 1..Len(avail) |-> YVar(i - 1)],
    generals |-> [i \in 1..Len(avail) |-> ZVar(i - 1)] ]

\* ------------------------------------------------------------ the solver
\* glpk.solve is outside the repository.  It is modelled by its contract: an
\* answer with status GLP_OPT or GLP_FEAS carries a value for every declared
\* variable, these values satisfy the declared bounds, types and rows, and
\* GLP_OPT values minimise the objective; GLP_NOFEAS is answered only when
\* no such values exist.  The continuous x_i range over the weight grid.
RECURSIVE SumRow(_, _, _)
SumRow(terms, values, count) ==
  IF count = 0 THEN 0
  ELSE SumRow(terms, values, count - 1) + terms[count].coef * values[terms[count].name]

RowValue(row, values) == SumRow(row.vars, values, Len(row.vars))

RowHolds(row, values) ==
  LET v == RowValue(row, values) IN
    CASE row.bnds.type = "GLP_FX" -> v = row.bnds.lb
      [] row.bnds.type = "GLP_UP" -> v <= row.bnds.ub
      [] row.bnds.type = "GLP_LO" -> v >= row.bnds.lb
      [] row.bnds.type = "GLP_DB" -> row.bnds.lb <= v /\ v <= row.bnds.ub

SeqRange(s) == { s[i] : i \in 1..Len(s) }

BoundOf(model, name) ==
  CHOOSE b \in SeqRange(model.bounds) : b.name = name

Domain(model, name) ==
  IF name \in SeqRange(model.binaries)
    THEN { v \in {0, 1} : BoundOf(model, name).lb <= v /\ v <= BoundOf(model, name).ub }
    ELSE BoundOf(model, name).lb .. BoundOf(model, name).ub

VarNames(model) == { b.name : b \in SeqRange(model.bounds) }

\* the rows that mention no variable outside `names`
RowsOver(model, names) ==
  { r \in SeqRange(model.subjectTo) : \A t \in SeqRange(r.vars) : t.name \in names }

\* the values of x, z, y of one fertilizer that its own rows allow
Triples(model, index) ==
  LET xn == XVar(index)
      zn == ZVar(index)
      yn == YVar(index)
      rows == RowsOver(model, {xn, zn, yn})
  IN { t \in { (xn :> x) @@ (zn :> z) @@ (yn :> y) :
                 x \in Domain(model, xn), z \in Domain(model, zn), y \in Domain(model, yn) } :
         \A r \in rows : RowHolds(r, t) }

RECURSIVE Combine(_, _)
Combine(model, count) ==
  IF count = 0 THEN { <<>> }
  ELSE { t @@ rest : t \in Triples(model, count - 1), rest \in Combine(model, count - 1) }

\* every assignment of the declared variables that honours the model
FeasibleSet(model) ==
  { values \in Combine(model, Len(model.bounds) \div 3) :
      \A r \in SeqRange(model.subjectTo) : RowHolds(r, values) }

ObjectiveValue(model, values) ==
  SumRow(model.objective.vars, values, Len(model.objective.vars))

\* the feasible assignments of least objective value
OptimalSet(model, feasible) ==
  { values \in feasible :
      \A other \in feasible :
        ObjectiveValue(model, values) <= ObjectiveValue(model, other) }

\* statuses that carry no values; GLP_INFEAS stands for a status the code
\* does not name
OtherStatuses == {"GLP_UNBND", "GLP_UNDEF", "GLP_INFEAS"}

SolverAnswers(model) ==
  LET feasible == FeasibleSet(model) IN
    { [status |-> "GLP_OPT", vars |-> values] : values \in OptimalSet(model, feasible) }
    \cup { [status |-> "GLP_FEAS", vars |-> values] : values \in feasible }
    \cup (IF feasible = {} THEN { [status |-> "GLP_NOFEAS"] } ELSE {})
    \cup { [status |-> st] : st \in OtherStatuses }

\* ------------------------------------------------------ result interpreter
RECURSIVE Accumulate_ReadsFirst(_, _, _, _)
\* mutant of Accumulate: every ingredient reads the variable x0
Accumulate_ReadsFirst(avail, values, index, acc) ==
  IF index = Len(avail) THEN acc
  ELSE LET f == avail[index + 1]
           x_val == values[XVar(0)]
       IN Accumulate_ReadsFirst(avail, values, index + 1,
            IF x_val # 0 /\ x_val > epsilon
              THEN [ recipe |-> Append(acc.recipe, [fertilizer |-> f, amount |-> x_val]),
                     actualN |-> acc.actualN + x_val * f.n,
                     actualP |-> acc.actualP + x_val * f.p,
                     actualK |-> acc.actualK + x_val * f.k,
                     actualWeight |-> acc.actualWeight + x_val ]
              ELSE acc)

\* The forEach of lines 172-181.  actualN, actualP, actualK are kept in
\* hundredths (the source adds x_val * f.n / 100).
RECURSIVE Accumulate(_, _, _, _)
Accumulate(avail, values, index, acc) ==
  IF index = Len(avail) THEN acc
  ELSE LET f == avail[index + 1]
           x_val == values[XVar(index)]
       IN Accumulate(avail, values, index + 1,
            IF x_val # 0 /\ x_val > epsilon
              THEN [ recipe |-> Append(acc.recipe, [fertilizer |-> f, amount |-> x_val]),
                     actualN |-> acc.actualN + x_val * f.n,
                     actualP |-> acc.actualP + x_val * f.p,
                     actualK |-> acc.actualK + x_val * f.k,
                     actualWeight |-> acc.actualWeight + x_val ]
              ELSE acc)

\* mutant of PercentOrZero: the `|| 0` is missing, 0/0 stays NaN
PercentOrZero_NoFallback(hundredths, actualWeight) ==
  [num |-> hundredths, den |-> actualWeight]

\* (actual / actualWeight) * 100 || 0, as the fraction num/den: 0/0 is NaN
\* and NaN || 0 is 0, and 0 || 0 is 0.  hundredths is 100 * actual.
PercentOrZero(hundredths, actualWeight) ==
  IF hundredths = 0 THEN [num |-> 0, den |-> 1]
  ELSE [num |-> hundredths, den |-> actualWeight]

RECURSIVE FinalRecipe(_)
\* recipe.filter(item => item.amount > epsilon)
FinalRecipe(recipe) ==
  IF recipe = <<>> THEN <<>>
  ELSE IF Head(recipe).amount > epsilon
         THEN <<Head(recipe)>> \o FinalRecipe(Tail(recipe))
         ELSE FinalRecipe(Tail(recipe))

SuccessResult(avail, values) ==
  LET acc == Accumulate(avail, values, 0,
               [recipe |-> <<>>, actualN |-> 0, actualP |-> 0, actualK |-> 0, actualWeight |-> 0])
  IN [ recipe |-> FinalRecipe(acc.recipe),
       actualNPK |-> [ n |-> PercentOrZero(acc.actualN, acc.actualWeight),
                       p |-> PercentOrZero(acc.actualP, acc.actualWeight),
                       k |-> PercentOrZero(acc.actualK, acc.actualWeight) ],
       actualWeight |-> acc.actualWeight ]

\* mutant of StatusErrorMessage: the unbounded and undefined messages are
\* exchanged
StatusErrorMessage_Exchanged(status) ==
  IF status = "GLP_NOFEAS" THEN InfeasibleMsg
  ELSE IF status = "GLP_UNBND" THEN UndefinedMsg
  ELSE IF status = "GLP_UNDEF" THEN UnboundedMsg
  ELSE StatusMsgPrefix \o status

StatusErrorMessage(status) ==
  IF status = "GLP_NOFEAS" THEN InfeasibleMsg
  ELSE IF status = "GLP_UNBND" THEN UnboundedMsg
  ELSE IF status = "GLP_UNDEF" THEN UndefinedMsg
  ELSE StatusMsgPrefix \o status

\* mutant of Interpret: a failure also carries an empty recipe
Interpret_FailureWithRecipe(avail, answer) ==
  IF answer.status = "GLP_OPT" \/ answer.status = "GLP_FEAS"
    THEN SuccessResult(avail, answer.vars)
    ELSE [error |-> StatusErrorMessage(answer.status), recipe |-> <<>>]

\* lines 168-208
Interpret(avail, answer) ==
  IF answer.status = "GLP_OPT" \/ answer.status = "GLP_FEAS"
    THEN SuccessResult(avail, answer.vars)
    ELSE [error |-> StatusErrorMessage(answer.status)]

NoModel == [ name |-> "none", subjectTo |-> <<>>, bounds |-> <<>>,
             binaries |-> <<>>, generals |-> <<>>,
             objective |-> [direction |-> "GLP_MIN", name |-> "count", vars |-> <<>>] ]
NoSolverResult == [ status |-> "none" ]
NoResult == [ pending |-> TRUE ]
NoError == "none"

\* calculationResult before any calculation and while one is awaited
Null == [null |-> TRUE]
NoTargets == [none |-> TRUE]

\* no invocations overlap
NoInvocations == invocations = <<>>

\* the Mixer is not mounted
MixerUnmounted ==
  /\ form = [targetN |-> "", targetP |-> "", targetK |-> "", totalWeight |-> "",
             increment |-> "", tolerance |-> 0, selectedFertilizers |-> <<>>]
  /\ calculationResult = Null
  /\ pastBlends = <<>>
  /\ inFlight = <<>>
  /\ triggers = 0
  /\ clicks = 0
  /\ edits = 0
  /\ lastTriggered = [id |-> 0, result |-> NoResult]
  /\ shownFor = NoTargets
  /\ savedFor = <<>>

Init ==
  /\ params \in CalculateMixParams
  /\ pc = "Received"
  /\ availableFertilizers = <<>>
  /\ lp = NoModel
  /\ solverResult = NoSolverResult
  /\ result = NoResult
  /\ thrown = NoError
  /\ caught = NoError
  /\ stages = <<"Received">>
  /\ solveCalls = 0
  /\ NoInvocations
  /\ MixerUnmounted

\* mutant of ParametersInvalid: a zero totalWeight passes
ParametersInvalid_ZeroWeightPasses(p) == p.totalWeight < 0 \/ p.increment <= 0

\* line 47
ParametersInvalid(p) == p.totalWeight <= 0 \/ p.increment <= 0

\* mutant of Validate: the two checks in the other order
Validate_ParametersFirst(p, filtered) ==
  IF ParametersInvalid(p) THEN InvalidParametersMsg
  ELSE IF Len(filtered) = 0 THEN NoCandidatesMsg
  ELSE NoError

\* The two early returns of lines 44-49, in their order: the error message
\* returned, or NoError when the request goes on to the solver.
Validate(p, filtered) ==
  IF Len(filtered) = 0 THEN NoCandidatesMsg
  ELSE IF ParametersInvalid(p) THEN InvalidParametersMsg
  ELSE NoError

\* the Result of the catch block, line 211; message is err.message
CaughtResult(message) == [error |-> FaultMsgPrefix \o message]

\* calculateMix up to its first suspension point (lines 26-51)
Start ==
  /\ pc = "Received"
  /\ LET filtered == ZeroTargetFilter(params)
         message == Validate(params, filtered)
     IN /\ availableFertilizers' = filtered
        /\ IF message # NoError
             THEN /\ result' = [error |-> message]
                  /\ pc' = "Returned"
             ELSE /\ result' = result
                  /\ pc' = "AwaitGLPK"
  /\ stages' = Append(stages, "Filtered")
  /\ UNCHANGED <<params, lp, solverResult, thrown, caught, solveCalls>>
  /\ UNCHANGED <<overlapVars, mixerVars>>

\* GLPK() resolved: lines 52-166, the model is built and glpk.solve called
GLPKResolve ==
  /\ pc = "AwaitGLPK"
  /\ lp' = BuildModel(params, availableFertilizers)
  /\ pc' = "AwaitSolve"
  /\ stages' = Append(stages, "Built")
  /\ solveCalls' = solveCalls + 1
  /\ UNCHANGED <<params, availableFertilizers, solverResult, result, thrown, caught>>
  /\ UNCHANGED <<overlapVars, mixerVars>>

\* GLPK() rejected: line 51 is outside the try block, the rejection leaves
\* calculateMix
GLPKReject ==
  /\ pc = "AwaitGLPK"
  /\ \E msg \in ErrorMessages : thrown' = msg
  /\ pc' = "Rejected"
  /\ UNCHANGED <<params, availableFertilizers, lp, solverResult, result, caught,
                 stages, solveCalls>>
  /\ UNCHANGED <<overlapVars, mixerVars>>

\* glpk.solve resolved: lines 166-208
SolveResolve ==
  /\ pc = "AwaitSolve"
  /\ \E answer \in SolverAnswers(lp) :
       /\ solverResult' = answer
       /\ result' = Interpret(availableFertilizers, answer)
  /\ pc' = "Returned"
  /\ stages' = stages \o <<"Solved", "Interpreted">>
  /\ UNCHANGED <<params, availableFertilizers, lp, thrown, caught, solveCalls>>
  /\ UNCHANGED <<overlapVars, mixerVars>>

\* glpk.solve threw or rejected: the catch block, lines 209-212
SolveReject ==
  /\ pc = "AwaitSolve"
  /\ \E msg \in ErrorMessages :
       /\ caught' = msg
       /\ result' = CaughtResult(msg)
  /\ pc' = "Returned"
  /\ stages' = stages \o <<"Solved", "Interpreted">>
  /\ UNCHANGED <<params, availableFertilizers, lp, solverResult, thrown, solveCalls>>
  /\ UNCHANGED <<overlapVars, mixerVars>>

Next == Start \/ GLPKResolve \/ GLPKReject \/ SolveResolve \/ SolveReject

Spec == Init /\ [][Next]_vars
\* ------------------------------------------- overlapping invocations
\* Several invocations of calculateMix in flight at once (a caller that
\* triggers a calculation before an earlier one completed).  Every name the
\* function uses is a parameter or a const/let local of the call (lines
\* 27-71, 166-170), so each invocation has its own copy; a step of one
\* invocation runs from one suspension point to the next.
OverlapRequests ==
  { [targetN |-> 50, targetP |-> 0, targetK |-> 0, totalWeight |-> 6, tolerance |-> 50,
     increment |-> 3,
     availableFertilizers |-> << [id |-> "E", n |-> 50, p |-> 0, k |-> 0],
                                 [id |-> "A", n |-> 100, p |-> 0, k |-> 0] >>],
    [targetN |-> 0, targetP |-> 50, targetK |-> 50, totalWeight |-> 4, tolerance |-> 0,
     increment |-> 1,
     availableFertilizers |-> << [id |-> "C", n |-> 0, p |-> 50, k |-> 50] >>],
    [targetN |-> 0, targetP |-> 0, targetK |-> 0, totalWeight |-> 5, tolerance |-> 0,
     increment |-> 2,
     availableFertilizers |-> << [id |-> "B", n |-> 0, p |-> 0, k |-> 0] >>],
    [targetN |-> 0, targetP |-> 0, targetK |-> 0, totalWeight |-> 0, tolerance |-> 0,
     increment |-> 1,
     availableFertilizers |-> << [id |-> "B", n |-> 0, p |-> 0, k |-> 0] >>],
    [targetN |-> 0, targetP |-> 0, targetK |-> 0, totalWeight |-> 4, tolerance |-> 0,
     increment |-> 1,
     availableFertilizers |-> << [id |-> "A", n |-> 100, p |-> 0, k |-> 0] >>] }

Calls == 1..MaxOverlap

NewInvocation(p) ==
  [ params |-> p, pc |-> "Received", availableFertilizers |-> <<>>, lp |-> NoModel,
    solverResult |-> NoSolverResult, result |-> NoResult, thrown |-> NoError,
    caught |-> NoError, overlapped |-> FALSE ]

\* no single invocation is being followed
CoreIdle ==
  /\ params = [targetN |-> 0, targetP |-> 0, targetK |-> 0, totalWeight |-> 0,
               tolerance |-> 0, increment |-> 0, availableFertilizers |-> <<>>]
  /\ pc = "Idle"
  /\ availableFertilizers = <<>>
  /\ lp = NoModel
  /\ solverResult = NoSolverResult
  /\ result = NoResult
  /\ thrown = NoError
  /\ caught = NoError
  /\ stages = <<>>
  /\ solveCalls = 0

InitOverlap ==
  /\ CoreIdle
  /\ \E requests \in [Calls -> OverlapRequests] :
       invocations = [i \in Calls |-> NewInvocation(requests[i])]
  /\ MixerUnmounted

\* another invocation is suspended at an await
OthersInFlight(i) ==
  \E j \in Calls : j # i /\ invocations[j].pc \in {"AwaitGLPK", "AwaitSolve"}

\* mutant of SolvedModel: lp is a variable of the module, shared by the
\* invocations, and holds the model another invocation built
SolvedModel_ModuleLevel(invs, i) ==
  IF \E j \in DOMAIN invs : j # i /\ invs[j].lp.name = "Fertilizer-Mix"
    THEN invs[CHOOSE j \in DOMAIN invs : j # i /\ invs[j].lp.name = "Fertilizer-Mix"].lp
    ELSE invs[i].lp

\* the lp that invocation i passes to glpk.solve (line 166): its own const lp
SolvedModel(invs, i) == invs[i].lp

OverlapStart(i) ==
  /\ invocations[i].pc = "Received"
  /\ LET inv == invocations[i]
         filtered == ZeroTargetFilter(inv.params)
         message == Validate(inv.params, filtered)
     IN invocations' = [invocations EXCEPT ![i] =
          IF message # NoError
            THEN [inv EXCEPT !.availableFertilizers = filtered,
                             !.result = [error |-> message], !.pc = "Returned"]
            ELSE [inv EXCEPT !.availableFertilizers = filtered, !.pc = "AwaitGLPK"]]
  /\ UNCHANGED <<coreVars, mixerVars>>

OverlapGLPKResolve(i) ==
  /\ invocations[i].pc = "AwaitGLPK"
  /\ LET inv == invocations[i] IN
       invocations' = [invocations EXCEPT ![i] =
         [inv EXCEPT !.lp = BuildModel(inv.params, inv.availableFertilizers),
                     !.pc = "AwaitSolve"]]
  /\ UNCHANGED <<coreVars, mixerVars>>

OverlapGLPKReject(i) ==
  /\ invocations[i].pc = "AwaitGLPK"
  /\ \E msg \in ErrorMessages :
       invocations' = [invocations EXCEPT ![i].thrown = msg, ![i].pc = "Rejected"]
  /\ UNCHANGED <<coreVars, mixerVars>>

OverlapSolveResolve(i) ==
  /\ invocations[i].pc = "AwaitSolve"
  /\ LET inv == invocations[i] IN
       \E answer \in SolverAnswers(SolvedModel(invocations, i)) :
         invocations' = [invocations EXCEPT ![i] =
           [inv EXCEPT !.solverResult = answer,
                       !.result = Interpret(inv.availableFertilizers, answer),
                       !.overlapped = OthersInFlight(i),
                       !.pc = "Returned"]]
  /\ UNCHANGED <<coreVars, mixerVars>>

OverlapSolveReject(i) ==
  /\ invocations[i].pc = "AwaitSolve"
  /\ \E msg \in ErrorMessages :
       invocations' = [invocations EXCEPT ![i].caught = msg,
                                          ![i].result = CaughtResult(msg),
                                          ![i].overlapped = OthersInFlight(i),
                                          ![i].pc = "Returned"]
  /\ UNCHANGED <<coreVars, mixerVars>>

NextOverlap ==
  \/ \E i \in Calls : OverlapStart(i)
  \/ \E i \in Calls : OverlapGLPKResolve(i)
  \/ \E i \in Calls : OverlapGLPKReject(i)
  \/ \E i \in Calls : OverlapSolveResolve(i)
  \/ \E i \in Calls : OverlapSolveReject(i)

SpecOverlap == InitOverlap /\ [][NextOverlap]_vars

\* ------------------------------------------------------------ Mixer
\* The Mixer component: its form state, the calculation it triggers and the
\* blends it saves.  A user event runs its handler to completion; the
\* continuation of handleCalculateMix after `await calculateMix(params)` runs
\* when that call settles.
MixerWeightMsg == "Total Blend Weight must be greater than 0."
MixerIncrementMsg == "Ingredient Increment must be greater than 0."

\* the fertilizer library the Mixer offers (allFertilizers)
allFertilizers ==
  << [id |-> "E", n |-> 50, p |-> 0, k |-> 0], [id |-> "A", n |-> 100, p |-> 0, k |-> 0] >>

\* texts a user types into the fields, and selections the Autocomplete reports
TargetTexts == {"", "-5"}
WeightTexts == {"", "0.0015"}
IncrementTexts == {"."}
SliderValues == {0, 20}
Selections == {<<>>, << allFertilizers[1] >>}
NumberFields == {"targetN", "targetP", "targetK", "totalWeight", "increment"}

FieldTexts(field) ==
  IF field = "totalWeight" THEN WeightTexts
  ELSE IF field = "increment" THEN IncrementTexts
  ELSE TargetTexts

\* /^[0-9]*\.?[0-9]*$/.test(value)
MatchesNumberPattern(value) == value \in {"", ".", "50", "0.003", "0.0015"}

\* the texts Number(value) converts to a number, with the number; weights and
\* increments in units of 0.0005 g.  Every other text converts to NaN.
Numerals ==
  [ value \in {"50", "-5", "0.003", "0.0015"} |->
      CASE value = "50" -> 50
        [] value = "-5" -> -5
        [] value = "0.003" -> 6
        [] value = "0.0015" -> 3 ]

\* isNaN(Number(value))
isNaN(value) == value \notin DOMAIN Numerals

getSafeNumber(value, defaultValue) ==
  IF value = "" THEN defaultValue
  ELSE IF isNaN(value) THEN defaultValue ELSE Numerals[value]

InitMixer ==
  /\ CoreIdle
  /\ NoInvocations
  /\ \E slider \in SliderValues :
       form = [targetN |-> "50", targetP |-> "", targetK |-> "", totalWeight |-> "0.003",
               increment |-> "0.0015", tolerance |-> slider,
               selectedFertilizers |-> allFertilizers]
  /\ calculationResult = Null
  /\ pastBlends = <<>>
  /\ inFlight = <<>>
  /\ triggers = 0
  /\ clicks = 0
  /\ edits = 0
  /\ lastTriggered = [id |-> 0, result |-> NoResult]
  /\ shownFor = NoTargets
  /\ savedFor = <<>>

\* handleNumberInputChange(setter): the setter is called when the typed text
\* matches the pattern
HandleNumberInputChange ==
  /\ edits < MaxEdits
  /\ \E field \in NumberFields : \E value \in FieldTexts(field) :
       form' = IF MatchesNumberPattern(value) THEN [form EXCEPT ![field] = value] ELSE form
  /\ edits' = edits + 1
  /\ UNCHANGED <<calculationResult, pastBlends, inFlight,
                 triggers, clicks, lastTriggered, shownFor, savedFor>>
  /\ UNCHANGED <<coreVars, overlapVars>>

\* the Slider's onChange
SetTolerance ==
  /\ edits < MaxEdits
  /\ \E newValue \in SliderValues : form' = [form EXCEPT !.tolerance = newValue]
  /\ edits' = edits + 1
  /\ UNCHANGED <<calculationResult, pastBlends, inFlight, triggers, clicks, lastTriggered,
                 shownFor, savedFor>>
  /\ UNCHANGED <<coreVars, overlapVars>>

\* the Autocomplete's onChange, and the Select All button
SetSelectedFertilizers ==
  /\ edits < MaxEdits
  /\ \E newValue \in Selections \cup {allFertilizers} :
       form' = [form EXCEPT !.selectedFertilizers = newValue]
  /\ edits' = edits + 1
  /\ UNCHANGED <<calculationResult, pastBlends, inFlight, triggers, clicks, lastTriggered,
                 shownFor, savedFor>>
  /\ UNCHANGED <<coreVars, overlapVars>>

TargetsOf(p) == [n |-> p.targetN, p |-> p.targetP, k |-> p.targetK]

\* what one call of handleCalculateMix changes
CalculationState ==
  [ calculationResult |-> calculationResult, inFlight |-> inFlight, triggers |-> triggers,
    lastTriggered |-> lastTriggered, shownFor |-> shownFor ]

\* handleCalculateMix up to its await, and past it when calculateMix returns
\* before reaching an await of its own (its validation failed: the promise is
\* already resolved and the continuation runs before any other event)
handleCalculateMix(m) ==
  LET safeTargetN == getSafeNumber(form.targetN, 0)
      safeTargetP == getSafeNumber(form.targetP, 0)
      safeTargetK == getSafeNumber(form.targetK, 0)
      safeTotalWeight == getSafeNumber(form.totalWeight, 0)
      safeIncrement == getSafeNumber(form.increment, 0)
      id == m.triggers + 1
      shows(r) == [m EXCEPT !.calculationResult = r, !.triggers = id,
                            !.lastTriggered = [id |-> id, result |-> r],
                            !.shownFor = NoTargets]
  IN IF safeTotalWeight <= 0 THEN shows([error |-> MixerWeightMsg])
     ELSE IF safeIncrement <= 0 THEN shows([error |-> MixerIncrementMsg])
     ELSE LET prm == [ targetN |-> safeTargetN, targetP |-> safeTargetP,
                       targetK |-> safeTargetK, totalWeight |-> safeTotalWeight,
                       tolerance |-> form.tolerance, increment |-> safeIncrement,
                       availableFertilizers |-> form.selectedFertilizers ]
              filtered == ZeroTargetFilter(prm)
              message == Validate(prm, filtered)
          IN IF message # NoError THEN shows([error |-> message])
             ELSE [m EXCEPT !.calculationResult = Null, !.triggers = id,
                            !.lastTriggered = [id |-> id, result |-> NoResult],
                            !.shownFor = NoTargets,
                            !.inFlight = Append(m.inFlight,
                               [ id |-> id, params |-> prm,
                                 availableFertilizers |-> filtered ])]

\* handleFormSubmit: preventDefault, then handleCalculateMix
handleFormSubmit(m) == handleCalculateMix(m)

\* A click on Calculate Mix: the button is type="submit" and has
\* onClick={handleCalculateMix}, so the click runs handleCalculateMix and the
\* submit it causes runs handleFormSubmit.
ClickCalculateMix ==
  /\ clicks < MaxClicks
  /\ LET m == handleFormSubmit(handleCalculateMix(CalculationState)) IN
       /\ calculationResult' = m.calculationResult
       /\ inFlight' = m.inFlight
       /\ triggers' = m.triggers
       /\ lastTriggered' = m.lastTriggered
       /\ shownFor' = m.shownFor
  /\ clicks' = clicks + 1
  /\ UNCHANGED <<formVars, pastBlends, edits, savedFor>>
  /\ UNCHANGED <<coreVars, overlapVars>>

RECURSIVE Without(_, _)
\* the sequence s without its element at index i
Without(s, i) ==
  IF s = <<>> THEN <<>>
  ELSE IF i = 1 THEN Tail(s)
  ELSE <<Head(s)>> \o Without(Tail(s), i - 1)

Settle(call, outcome) ==
  IF lastTriggered.id = call.id THEN [lastTriggered EXCEPT !.result = outcome]
  ELSE lastTriggered

\* the Results with which calculateMix(params) can resolve once it passed its
\* validation: what it makes of an answer of glpk.solve to its model, or of a
\* fault of glpk.solve
ResolvedResults(call) ==
  { Interpret(call.availableFertilizers, answer) :
      answer \in SolverAnswers(BuildModel(call.params, call.availableFertilizers)) }
  \cup { CaughtResult(msg) : msg \in ErrorMessages }

\* an awaited calculateMix call resolves and the continuation of
\* handleCalculateMix runs: setCalculationResult(result)
CalculateMixResolves ==
  /\ \E i \in DOMAIN inFlight : \E r \in ResolvedResults(inFlight[i]) :
       /\ calculationResult' = r
       /\ shownFor' = TargetsOf(inFlight[i].params)
       /\ inFlight' = Without(inFlight, i)
       /\ lastTriggered' = Settle(inFlight[i], r)
  /\ UNCHANGED <<formVars, pastBlends, triggers, clicks, edits, savedFor>>
  /\ UNCHANGED <<coreVars, overlapVars>>

\* an awaited calculateMix call rejects (its await GLPK() rejected):
\* handleCalculateMix has no try/catch, so its continuation never runs
CalculateMixRejects ==
  /\ \E i \in DOMAIN inFlight : \E msg \in ErrorMessages :
       /\ inFlight' = Without(inFlight, i)
       /\ lastTriggered' = Settle(inFlight[i], [rejected |-> msg])
  /\ UNCHANGED <<formVars, calculationResult, pastBlends, triggers, clicks, edits,
                 shownFor, savedFor>>
  /\ UNCHANGED <<coreVars, overlapVars>>

\* the Save Blend button is rendered with a non-empty recipe
SaveButtonShown ==
  /\ calculationResult # Null
  /\ "recipe" \in DOMAIN calculationResult
  /\ Len(calculationResult.recipe) > 0

\* calculationResult?.recipe && !calculationResult.error &&
\* calculationResult.actualNPK && calculationResult.actualWeight
CanSave(r) ==
  /\ r # Null
  /\ "recipe" \in DOMAIN r
  /\ "error" \notin DOMAIN r
  /\ "actualNPK" \in DOMAIN r
  /\ "actualWeight" \in DOMAIN r /\ r.actualWeight # 0

\* targetNPK of a new blend: the target fields as they are when Save is clicked
SavedTargets ==
  [ n |-> getSafeNumber(form.targetN, 0), p |-> getSafeNumber(form.targetP, 0),
    k |-> getSafeNumber(form.targetK, 0) ]

handleSaveBlend ==
  /\ SaveButtonShown
  /\ Len(pastBlends) < MaxBlends
  /\ IF CanSave(calculationResult)
       THEN /\ pastBlends' = Append(pastBlends,
                 [ id |-> Len(pastBlends) + 1,
                   targetNPK |-> SavedTargets,
                   totalWeight |-> calculationResult.actualWeight,
                   recipe |-> calculationResult.recipe ])
            /\ savedFor' = Append(savedFor,
                 [targets |-> shownFor, result |-> calculationResult])
       ELSE UNCHANGED <<pastBlends, savedFor>>
  /\ UNCHANGED <<formVars, calculationResult, inFlight, triggers, clicks, edits,
                 lastTriggered, shownFor>>
  /\ UNCHANGED <<coreVars, overlapVars>>

NextMixer ==
  \/ HandleNumberInputChange
  \/ SetTolerance
  \/ SetSelectedFertilizers
  \/ ClickCalculateMix
  \/ CalculateMixResolves
  \/ CalculateMixRejects
  \/ handleSaveBlend

SpecMixer == InitMixer /\ [][NextMixer]_vars

\* ------------------------------------------------------------------ claims
Returned == pc = "Returned"
IsFailure(r) == "error" \in DOMAIN r
IsSuccess(r) == "recipe" \in DOMAIN r
Succeeded == Returned /\ IsSuccess(result)
FailedWith(message) == Returned /\ IsFailure(result) /\ result.error = message
Filtered == pc # "Received"
Built == pc = "AwaitSolve" \/ (Returned /\ lp.name = "Fertilizer-Mix")

\* C1 as stated: a request with totalWeight <= 0 or increment <= 0 is answered
\* with the InvalidParameters message whatever its candidate list contains.
C1_InvalidWhateverTheList ==
  (Returned /\ (params.totalWeight <= 0 \/ params.increment <= 0))
    => FailedWith(InvalidParametersMsg)

\* C1 amended: a request with totalWeight <= 0 or increment <= 0 is answered
\* with the InvalidParameters message when the zero-target filter leaves at
\* least one candidate, and with the NoCandidates message when it leaves none.
C1_InvalidParameters ==
  (Filtered /\ (params.totalWeight <= 0 \/ params.increment <= 0))
    => IF Len(ZeroTargetFilter(params)) > 0
         THEN FailedWith(InvalidParametersMsg)
         ELSE FailedWith(NoCandidatesMsg)

C1_Witness ==
  /\ FailedWith(InvalidParametersMsg)
  /\ params.totalWeight > 0
  /\ params.increment = 0
  /\ Len(availableFertilizers) = 2

\* C2: a request whose candidate list is empty, or is emptied by the
\* zero-target filter, is answered with the NoCandidates message and no recipe.
C2_NoCandidates ==
  (Filtered /\ (params.availableFertilizers = <<>> \/ availableFertilizers = <<>>))
    => (FailedWith(NoCandidatesMsg) /\ ~ IsSuccess(result))

C2_Witness ==
  /\ FailedWith(NoCandidatesMsg)
  /\ Len(params.availableFertilizers) = 2
  /\ params.totalWeight <= 0
  /\ params.targetN = 0 /\ params.targetP = 0 /\ params.targetK = 0

\* C3 as stated: no failure leaves calculateMix as a rejection; an invocation
\* that passed validation ends by returning a Result.
C3_NothingThrown ==
  pc # "Rejected" /\ thrown = NoError

Nutrients == {"n", "p", "k"}
TargetOf(nut) ==
  IF nut = "n" THEN params.targetN ELSE IF nut = "p" THEN params.targetP ELSE params.targetK
ToleranceRowName(nut) ==
  IF nut = "n" THEN "c_N_tolerance" ELSE IF nut = "p" THEN "c_P_tolerance" ELSE "c_K_tolerance"

\* the candidates the filter is claimed to keep: for every nutrient whose
\* target is exactly 0 the percentage is exactly 0
ClaimedKeep(f) == \A nut \in Nutrients : TargetOf(nut) = 0 => f[nut] = 0

\* s is the subsequence of t made of the elements of t that satisfy ClaimedKeep
RECURSIVE IsClaimedSubsequence(_, _)
IsClaimedSubsequence(s, t) ==
  IF t = <<>> THEN s = <<>>
  ELSE IF ClaimedKeep(Head(t))
         THEN s # <<>> /\ Head(s) = Head(t) /\ IsClaimedSubsequence(Tail(s), Tail(t))
         ELSE IsClaimedSubsequence(s, Tail(t))

\* C4 as stated: the filtered list is, in the original order, exactly the
\* candidates that have percentage 0 for every nutrient whose target is 0.
C4_FilterKeepsExactlyZero ==
  Filtered => IsClaimedSubsequence(availableFertilizers, params.availableFertilizers)

RowsNamed(name) == { i \in 1..Len(lp.subjectTo) : lp.subjectTo[i].name = name }

\* C5: for each nutrient the built model holds that nutrient's tolerance row
\* exactly when the target is nonzero or a surviving ingredient has a nonzero
\* percentage; the row is double-bounded by targetAmount * (1 -/+ tolerance/100)
\* with targetAmount = totalWeight * target / 100, and its coefficient on
\* amount_i is pct_i / 100.
C5_ToleranceRows ==
  Built =>
    \A nut \in Nutrients :
      LET emitted == RowsNamed(ToleranceRowName(nut))
          needed == TargetOf(nut) # 0
                    \/ \E i \in 1..Len(availableFertilizers) : availableFertilizers[i][nut] # 0
      IN /\ (emitted # {}) <=> needed
         /\ Cardinality(emitted) <= 1
         /\ \A r \in emitted :
              LET row == lp.subjectTo[r] IN
                /\ row.bnds.type = "GLP_DB"
                /\ row.bnds.lb * 10000 = row.den * params.totalWeight * TargetOf(nut) * (100 - params.tolerance)
                /\ row.bnds.ub * 10000 = row.den * params.totalWeight * TargetOf(nut) * (100 + params.tolerance)
                /\ Len(row.vars) = Len(availableFertilizers)
                /\ \A i \in 1..Len(row.vars) :
                     /\ row.vars[i].name = XVar(i - 1)
                     /\ row.vars[i].coef * 100 = row.den * availableFertilizers[i][nut]

\* a built model with the nitrogen row emitted for a zero target (a surviving
\* ingredient has a nonzero percentage), the phosphorus row emitted for a
\* nonzero target and the potassium row omitted
C5_Witness ==
  /\ Built
  /\ params.targetN = 0 /\ RowsNamed("c_N_tolerance") # {}
  /\ params.targetP # 0 /\ RowsNamed("c_P_tolerance") # {}
  /\ RowsNamed("c_K_tolerance") = {}

\* C6: every amount of a successful recipe is a nonnegative integer multiple
\* of the request's increment.
C6_AmountsOnTheIncrementLattice ==
  Succeeded =>
    \A i \in 1..Len(result.recipe) :
      /\ result.recipe[i].amount >= 0
      /\ \E count \in 0..result.recipe[i].amount :
           result.recipe[i].amount = count * params.increment

\* a successful recipe of two entries with an increment above one unit
C6_Witness ==
  /\ Succeeded
  /\ Len(result.recipe) = 2
  /\ params.increment = 3

RECURSIVE SumAmounts(_)
SumAmounts(recipe) ==
  IF recipe = <<>> THEN 0 ELSE Head(recipe).amount + SumAmounts(Tail(recipe))

Abs(v) == IF v < 0 THEN -v ELSE v

\* C7 as stated: the amounts of a successful recipe, and the reported
\* actualWeight, sum to totalWeight within epsilon.
C7_WeightIsTotalWeight ==
  Succeeded =>
    /\ Abs(SumAmounts(result.recipe) - params.totalWeight) <= epsilon
    /\ Abs(result.actualWeight - params.totalWeight) <= epsilon

\* C8 as stated: for each nutrient whose tolerance row was emitted the
\* reported percentage num/den of a successful result lies within
\* [target * (1 - tolerance/100), target * (1 + tolerance/100)].
C8_ActualWithinTolerance ==
  Succeeded =>
    \A nut \in Nutrients :
      RowsNamed(ToleranceRowName(nut)) # {} =>
        LET actual == result.actualNPK[nut] IN
          /\ actual.den > 0
          /\ actual.num * 100 >= actual.den * TargetOf(nut) * (100 - params.tolerance)
          /\ actual.num * 100 <= actual.den * TargetOf(nut) * (100 + params.tolerance)

\* the number of ingredients with a nonzero amount in an assignment
NonzeroAmounts(values) ==
  Cardinality({ i \in 1..Len(availableFertilizers) : values[XVar(i - 1)] # 0 })

\* C9 as stated: the recipe of a successful result has as many entries as the
\* least number of ingredients with a nonzero amount over all assignments
\* that satisfy every emitted row and bound.
C9_FewestIngredients ==
  Succeeded =>
    /\ \A values \in FeasibleSet(lp) : Len(result.recipe) <= NonzeroAmounts(values)
    /\ \E values \in FeasibleSet(lp) : Len(result.recipe) = NonzeroAmounts(values)

\* the assignments of x_i, z_i, y_i that satisfy the declared bounds and types
\* and the three rows of ingredient i
LinkedTriples(index) ==
  LET xn == XVar(index)
      zn == ZVar(index)
      yn == YVar(index)
      rows == { r \in SeqRange(lp.subjectTo) :
                  r.name \in { "c_increment_" \o ToString(index),
                               "c_bigM_upper_" \o ToString(index),
                               "c_bigM_lower_" \o ToString(index) } }
  IN { t \in { (xn :> x) @@ (zn :> z) @@ (yn :> y) :
                 x \in Domain(lp, xn), z \in Domain(lp, zn), y \in Domain(lp, yn) } :
         \A r \in rows : RowHolds(r, t) }

\* C10: in every assignment that satisfies the declared bounds and types and
\* the three per-ingredient rows, amount_i = increment * doseCount_i and
\* used_i = 1 exactly when amount_i > 0.
C10_LinkedVariables ==
  Built =>
    \A i \in 1..Len(availableFertilizers) :
      /\ \A r \in { "c_increment_" \o ToString(i - 1), "c_bigM_upper_" \o ToString(i - 1),
                    "c_bigM_lower_" \o ToString(i - 1) } : Cardinality(RowsNamed(r)) = 1
      /\ \A t \in LinkedTriples(i - 1) :
           /\ t[XVar(i - 1)] = params.increment * t[ZVar(i - 1)]
           /\ (t[YVar(i - 1)] = 1) <=> (t[XVar(i - 1)] > 0)

\* a built model whose second ingredient can be unused and can be used with
\* two doses
C10_Witness ==
  /\ Built
  /\ Len(availableFertilizers) = 2
  /\ \E t \in LinkedTriples(1) : t[YVar(1)] = 0 /\ t[XVar(1)] = 0
  /\ \E t \in LinkedTriples(1) : t[YVar(1)] = 1 /\ t[ZVar(1)] = 2 /\ t[XVar(1)] = 2 * params.increment

SolveCalled == lp.name = "Fertilizer-Mix"
SuccessStatuses == {"GLP_OPT", "GLP_FEAS"}

\* C11: after the solver was called, status optimal or feasible gives a
\* success; infeasible, unbounded and undefined each give their own message;
\* any other status gives a message with the raw status; a solve call that
\* throws gives a message with the thrown error's message; no status other
\* than optimal or feasible yields a recipe.
C11_StatusClassification ==
  (Returned /\ SolveCalled) =>
    /\ IF caught # NoError
         THEN /\ solverResult.status = "none"
              /\ IsFailure(result) /\ ~ IsSuccess(result)
              /\ result.error = FaultMsgPrefix \o caught
         ELSE CASE solverResult.status \in SuccessStatuses ->
                     IsSuccess(result) /\ ~ IsFailure(result)
                [] solverResult.status = "GLP_NOFEAS" ->
                     IsFailure(result) /\ result.error = InfeasibleMsg
                [] solverResult.status = "GLP_UNBND" ->
                     IsFailure(result) /\ result.error = UnboundedMsg
                [] solverResult.status = "GLP_UNDEF" ->
                     IsFailure(result) /\ result.error = UndefinedMsg
                [] OTHER ->
                     IsFailure(result) /\ result.error = StatusMsgPrefix \o solverResult.status
    /\ IsSuccess(result) => (caught = NoError /\ solverResult.status \in SuccessStatuses)
    /\ Cardinality({InfeasibleMsg, UnboundedMsg, UndefinedMsg,
                    StatusMsgPrefix \o solverResult.status,
                    FaultMsgPrefix \o caught}) = 5

\* the solver answered with a status the code does not name
C11_Witness ==
  /\ Returned
  /\ solverResult.status = "GLP_INFEAS"
  /\ IsFailure(result)
  /\ result.error = "Solver finished with status: GLP_INFEAS"

\* C12: every Result returned has exactly one side: error alone, or recipe,
\* actualNPK and actualWeight together and no error.
C12_OneSidePopulated ==
  Returned =>
    \/ DOMAIN result = {"error"}
    \/ DOMAIN result = {"recipe", "actualNPK", "actualWeight"}

\* a failure reported by the solver status, after the model was built
C12_Witness ==
  /\ Returned
  /\ solverResult.status = "GLP_NOFEAS"
  /\ DOMAIN result = {"error"}

AllAmountsNegligible ==
  \A i \in 1..Len(availableFertilizers) : solverResult.vars[XVar(i - 1)] <= epsilon

\* C13: when the status is optimal or feasible and every amount is <= epsilon,
\* the Result is a success with an empty recipe, actualWeight 0 and the three
\* percentages 0 (a number, not an undefined value).
C13_TrivialSuccess ==
  (Returned /\ caught = NoError /\ solverResult.status \in SuccessStatuses
     /\ AllAmountsNegligible) =>
    /\ IsSuccess(result) /\ ~ IsFailure(result)
    /\ result.recipe = <<>>
    /\ result.actualWeight = 0
    /\ \A nut \in Nutrients :
         result.actualNPK[nut].den # 0 /\ result.actualNPK[nut].num = 0

\* two ingredients, each with an amount equal to epsilon
C13_Witness ==
  /\ Succeeded
  /\ Len(availableFertilizers) = 2
  /\ solverResult.vars[XVar(0)] = epsilon
  /\ solverResult.vars[XVar(1)] = epsilon
  /\ result.recipe = <<>>

\* C14 as stated: the invocation goes through Received, Filtered, Built,
\* Solved, Interpreted in this order, skipping none, and ends as a Success or
\* a Failure; the solver is called at most once and only after the filter left
\* a candidate and totalWeight > 0 and increment > 0 were checked; when a
\* validation fails no model is built and the solver is not called.
C14_StagesInOrder ==
  LET order == <<"Received", "Filtered", "Built", "Solved", "Interpreted">> IN
    /\ Len(stages) <= Len(order)
    /\ \A i \in 1..Len(stages) : stages[i] = order[i]
    /\ solveCalls <= 1
    /\ solveCalls = 1 =>
         /\ Len(stages) >= 3
         /\ Len(availableFertilizers) > 0
         /\ params.totalWeight > 0 /\ params.increment > 0
         /\ SolveCalled
    /\ (Filtered /\ (availableFertilizers = <<>> \/ params.totalWeight <= 0
                       \/ params.increment <= 0)) =>
         (lp = NoModel /\ solveCalls = 0 /\ Returned /\ IsFailure(result))
    /\ pc \in {"Returned", "Rejected"} =>
         /\ pc = "Returned"
         /\ IsSuccess(result) # IsFailure(result)
    /\ Succeeded => stages = order

\* C16: the recipe of a success is the subsequence, in candidate order, of
\* the surviving ingredients whose own x_i is above epsilon, each with the
\* value of that x_i; no entry is <= epsilon and no ingredient removed by the
\* zero-target filter appears.
C16_RecipeIsTheKeptAmounts ==
  Succeeded =>
    LET kept == { i \in 1..Len(availableFertilizers) :
                    solverResult.vars[XVar(i - 1)] > epsilon }
        Nth(j) == CHOOSE i \in kept : Cardinality({ k \in kept : k <= i }) = j
        removed == { f \in SeqRange(params.availableFertilizers) :
                       \E nut \in Nutrients : TargetOf(nut) = 0 /\ f[nut] > 0 }
    IN /\ Len(result.recipe) = Cardinality(kept)
       /\ \A j \in 1..Len(result.recipe) :
            /\ result.recipe[j].fertilizer = availableFertilizers[Nth(j)]
            /\ result.recipe[j].amount = solverResult.vars[XVar(Nth(j) - 1)]
            /\ result.recipe[j].amount > epsilon
            /\ result.recipe[j].fertilizer \notin removed

\* the first survivor has no amount and the second is the only entry of the
\* recipe
C16_Witness ==
  /\ Succeeded
  /\ Len(availableFertilizers) = 2
  /\ solverResult.vars[XVar(0)] = 0
  /\ Len(result.recipe) = 1
  /\ result.recipe[1].fertilizer = availableFertilizers[2]

HonestStatuses == {"GLP_OPT", "GLP_FEAS", "GLP_NOFEAS"}

\* C17: when totalWeight is not an integer multiple of increment the built
\* model has no satisfying assignment; calculateMix never returns a success,
\* and a solver that honours the model makes it return the Infeasible failure.
C17_OffLatticeWeightIsInfeasible ==
  (Built /\ params.totalWeight % params.increment # 0) =>
    /\ FeasibleSet(lp) = {}
    /\ ~ (Returned /\ IsSuccess(result))
    /\ (Returned /\ solverResult.status \in HonestStatuses) => FailedWith(InfeasibleMsg)

\* an increment above totalWeight, and one below it that does not divide it
C17_Witness ==
  /\ FailedWith(InfeasibleMsg)
  /\ \/ params.increment > params.totalWeight
     \/ (params.increment = 2 /\ params.totalWeight = 5 /\ Len(availableFertilizers) = 2)

NonnegativePercentages ==
  \A f \in SeqRange(params.availableFertilizers) : \A nut \in Nutrients : f[nut] >= 0

\* C18: for a request whose percentages are all >= 0 a nutrient's tolerance
\* row is omitted exactly when its target is 0, and no emitted tolerance row
\* has a zero target together with a positive coefficient.
C18_NoDegenerateRow ==
  (Built /\ NonnegativePercentages) =>
    \A nut \in Nutrients :
      /\ (RowsNamed(ToleranceRowName(nut)) = {}) <=> (TargetOf(nut) = 0)
      /\ \A r \in RowsNamed(ToleranceRowName(nut)) :
           ~ (TargetOf(nut) = 0
              /\ \E t \in SeqRange(lp.subjectTo[r].vars) : t.coef > 0)

\* a candidate with nitrogen was removed for a zero nitrogen target, the
\* nitrogen row is omitted and the phosphorus row is emitted
C18_Witness ==
  /\ Built /\ NonnegativePercentages
  /\ params.targetN = 0
  /\ \E f \in SeqRange(params.availableFertilizers) : f.n > 0
  /\ RowsNamed("c_N_tolerance") = {}
  /\ RowsNamed("c_P_tolerance") # {}

\* the Results calculateMix can return for request p when it runs alone and
\* the solver answers `answer` or throws `failure`
AloneResult(p, answer, failure) ==
  LET filtered == ZeroTargetFilter(p)
      message == Validate(p, filtered)
  IN IF message # NoError THEN [error |-> message]
     ELSE IF failure # NoError THEN CaughtResult(failure)
     ELSE Interpret(filtered, answer)

\* C15: under every interleaving of overlapping invocations each invocation
\* builds and solves its own model, and its Result is the one it produces
\* alone for the same request and the same solver answer.
C15_InvocationsIndependent ==
  \A i \in DOMAIN invocations :
    LET inv == invocations[i]
        own == BuildModel(inv.params, ZeroTargetFilter(inv.params))
    IN /\ inv.lp.name = "Fertilizer-Mix" => inv.lp = own
       /\ inv.solverResult.status # "none" => inv.solverResult \in SolverAnswers(own)
       /\ inv.pc = "Returned" =>
            inv.result = AloneResult(inv.params, inv.solverResult, inv.caught)

\* two invocations with different requests both returned a success, and each
\* was answered while the other was suspended or had the other answered while
\* it was suspended
C15_Witness ==
  /\ invocations # <<>>
  /\ invocations[1].pc = "Returned" /\ invocations[2].pc = "Returned"
  /\ invocations[1].params # invocations[2].params
  /\ IsSuccess(invocations[1].result) /\ IsSuccess(invocations[2].result)
  /\ invocations[1].result # invocations[2].result
  /\ invocations[1].overlapped \/ invocations[2].overlapped

\* every calculation the Mixer triggered has completed
AllCompleted == triggers > 0 /\ inFlight = <<>>

\* C19: once every triggered calculation has completed, the displayed
\* calculationResult is the Result of the calculation triggered last.
C19_ShowsLatestTriggered ==
  AllCompleted => calculationResult = lastTriggered.result

\* C20: every saved blend has the targets that were passed to the calculateMix
\* call whose recipe it stores, and it was appended from a success with a
\* recipe.
C20_BlendRecordsItsInputs ==
  \A i \in DOMAIN pastBlends :
    /\ IsSuccess(savedFor[i].result)
    /\ pastBlends[i].recipe = savedFor[i].result.recipe
    /\ pastBlends[i].targetNPK = savedFor[i].targets

=============================================================================
